---------------------------- MODULE Spec2Model ----------------------------
(***************************************************************************)
(* A model of scrape_wikinews.py: the category crawl (category_pages), the *)
(* metadata and content extractors (metadata, content), the assembler      *)
(* (article) and the driver loop of the script (__main__).                 *)
(*                                                                         *)
(* The HTML library is modelled at the interface the code uses: find()     *)
(* returns the matching nodes of a subtree (the node itself included) in   *)
(* document order, full_text is the text content of a node's subtree,      *)
(* absolute_links is the SET of link targets of the anchors of a subtree,  *)
(* attrs.get() is None for a missing attribute.  session.get() answers     *)
(* every request with a response (the retry adapter is outside the core).  *)
(*                                                                         *)
(* Strings that the code inspects are sequences of tokens: a URL is        *)
(* <<scheme, host, path prefix, ...>>, a text is a sequence of words and   *)
(* white space.  None (and the empty string) is the empty sequence where   *)
(* the code only tests truth; an optional value is <<>> or <<v>>.          *)
(***************************************************************************)
EXTENDS Naturals, Sequences, FiniteSets

VARIABLES
    category_url,     \* the global name line 212 reads: Unbound, or a listing URL
    site,             \* what session.get returns for each listing URL
    next_page,        \* category_pages: the local next_page
    seen,             \* category_pages: the local seen
    page,             \* category_pages: the anchors of the page being processed
    idx,              \* category_pages: position of the loop of line 63
    pending,          \* category_pages: links of a.absolute_links not yet iterated (line 64)
    url,              \* the URL handed over by the yield of line 67
    yielded,          \* history: the URLs yielded so far, in order
    fetchedPages,     \* history: the listing URLs requested by line 56, in order
    fetchedArticles,  \* history: the article URLs requested by line 159, in order
    emitted,          \* history: the records printed by line 214, in order
    pc,               \* where the script is
    article,          \* the article document being processed
    blocks,           \* the sequence produced by content(article)
    mres              \* the value (or the exception) of metadata(article)

vars == <<category_url, site, next_page, seen, page, idx, pending, url, yielded,
          fetchedPages, fetchedArticles, emitted, pc, article, blocks, mres>>

(***************************************************************************)
(* Bounds of the model.                                                    *)
(***************************************************************************)
MaxAnchors == 3
MaxFetches == 3
MaxBlocks == 2
MaxNodes == 2

None == <<>>
Unbound == <<>>

Some(v) == <<v>>

Range(s) == {s[i] : i \in 1..Len(s)}

NoDup(s) == \A i, j \in 1..Len(s) : i # j => s[i] # s[j]

IsPrefix(s, t) == Len(s) <= Len(t) /\ SubSeq(t, 1, Len(s)) = s

(***************************************************************************)
(* URLs.                                                                   *)
(***************************************************************************)
A1 == <<"https://", "en.wikinews.org", "/wiki/", "Article_1">>
A2 == <<"https://", "en.wikinews.org", "/wiki/", "Article_2">>
C1 == <<"https://", "en.wikinews.org", "/wiki/", "Category:", "Health_policy">>
P1 == <<"https://", "en.wikinews.org", "/wiki/", "Category:", "Health">>
P2 == <<"https://", "en.wikinews.org", "/w/index.php?title=", "Category:", "Health&pagefrom=B">>

ArticleUrls == {A1, A2}
LinkedUrls == {A1, A2, C1}
ListingUrls == {P1, P2}

\* The URLs of the model in the order of Python's string comparison.
UrlOrder == <<P2, A1, A2, P1, C1>>

\* 'wikinews.org/wiki/Category:' in url  (line 213)
IsCategoryUrlInverted(u) ==
    ~\E i \in 1..Len(u) :
        /\ i + 2 <= Len(u)
        /\ u[i] = "en.wikinews.org"
        /\ u[i + 1] = "/wiki/"
        /\ u[i + 2] = "Category:"
IsCategoryUrl(u) ==
    \E i \in 1..Len(u) :
        /\ i + 2 <= Len(u)
        /\ u[i] = "en.wikinews.org"
        /\ u[i + 1] = "/wiki/"
        /\ u[i + 2] = "Category:"

(***************************************************************************)
(* Listing pages: the anchors of the page in document order.  inCategory   *)
(* says that the anchor matches '[class~="mw-category"] li a'; links is    *)
(* a.absolute_links (empty for an anchor without href, or with a fragment  *)
(* or javascript href).                                                    *)
(***************************************************************************)
Anchor(c, t, l) == [inCategory |-> c, text |-> t, links |-> l]

AnchorKinds ==
    {Anchor(TRUE, "title", {u}) : u \in LinkedUrls}
    \cup {Anchor(TRUE, "title", {A1, A2})}
    \cup {Anchor(FALSE, "next page", l) : l \in {{}, {P1}, {P2}}}
    \cup {Anchor(FALSE, "Next page", {P2})}

\* The pages of at most n anchors.
Pages(n) == UNION {[1..k -> AnchorKinds] : k \in 0..n}

Reverse(q) == [i \in 1..Len(q) |-> q[Len(q) + 1 - i]]

\* page.html.find('[class~="mw-category"] li a')  (line 63)
CategoryAnchorsReversed(p) == Reverse(SelectSeq(p, LAMBDA a : a.inCategory))
CategoryAnchors(p) == SelectSeq(p, LAMBDA a : a.inCategory)

\* [a for a in page.html.find('a') if a.text == 'next page']  (line 68)
NextPagesAnyCase(p) == SelectSeq(p, LAMBDA a : a.text \in {"next page", "Next page"})
NextPages(p) == SelectSeq(p, LAMBDA a : a.text = "next page")

\* Whether a crawl started at P1, whose anchors are a, can request P2.
RequestsSecondPage(a) == NextPages(a) # <<>> /\ P2 \in Head(NextPages(a)).links

\* The sites of at most max anchors on their listing pages.  A page that no crawl
\* requests is left empty: it decides nothing.
Sites(max) ==
    UNION {UNION {{[p \in ListingUrls |-> IF p = P1 THEN a ELSE b] :
                      b \in IF RequestsSecondPage(a) THEN Pages(max - n) ELSE {<<>>}} :
                  a \in [1..n -> AnchorKinds]} :
           n \in 0..max}

EmptySite == [p \in ListingUrls |-> <<>>]

(***************************************************************************)
(* Texts.  A token is a word or white space; strip() removes the white     *)
(* space at both ends.                                                     *)
(***************************************************************************)
IsSpace(c) == c \in {" ", "\n"}

RECURSIVE LStrip(_)
LStrip(t) == IF t # <<>> /\ IsSpace(Head(t)) THEN LStrip(Tail(t)) ELSE t

RECURSIVE RStrip(_)
RStrip(t) ==
    IF t # <<>> /\ IsSpace(t[Len(t)]) THEN RStrip(SubSeq(t, 1, Len(t) - 1)) ELSE t

Strip(t) == RStrip(LStrip(t))

\* sep.join(parts)
RECURSIVE Join(_, _)
Join(sep, parts) ==
    IF parts = <<>> THEN <<>>
    ELSE IF Len(parts) = 1 THEN Head(parts)
    ELSE Head(parts) \o <<sep>> \o Join(sep, Tail(parts))

(***************************************************************************)
(* The parse tree of an article.  A node is addressed by its path from the *)
(* root (the identity of the lxml element); its own text is the word of    *)
(* its number in document order, so that every piece of text tells which   *)
(* node it belongs to.                                                     *)
(***************************************************************************)
Node(t, c, i, x, k) == [tag |-> t, class |-> c, id |-> i, text |-> x, kids |-> k]

Words == <<"w1", "w2", "w3", "w4", "w5", "w6", "w7", "w8", "w9", "w10", "w11", "w12",
           "w13", "w14", "w15", "w16", "w17", "w18", "w19", "w20", "w21", "w22",
           "w23", "w24">>

Leaves ==
    { Node("span", {"mw-headline"}, "Background", "word", <<>>),
      Node("span", {"mw-headline"}, "References", "word", <<>>),
      Node("span", {"published"}, "", "word", <<>>),
      Node("p", {}, "", "word", <<>>) }

Inline == {n \in Leaves : n.tag = "span"}

Inner ==
    Leaves
    \cup { Node("dl", {}, "", "none", <<Node("b", {}, "", "word", <<>>)>>),
           Node("div", {"infobox"}, "", "none", <<Node("b", {}, "", "word", <<>>)>>) }

\* Tag and class of the nodes that hold inline content, and of those that hold blocks.
TextShells == { <<"p", {}>>, <<"h2", {}>> }

BlockShells == { <<"dl", {}>>, <<"div", {"cquote"}>>, <<"div", {"infobox"}>>,
                 <<"div", {"infobox", "cquote"}>> }

\* The nodes a document is built of: a blank paragraph, a node with text only, or
\* a node with one child.
Blocks ==
    {Node("p", {}, "", "none", <<>>)}
    \cup {Node(s[1], s[2], "", "padded", <<>>) : s \in TextShells \cup BlockShells}
    \cup {Node(s[1], s[2], "", "none", <<k>>) : s \in TextShells, k \in Inline}
    \cup {Node(s[1], s[2], "", "none", <<k>>) : s \in BlockShells, k \in Inner}

\* Nodes of the document outside the parser output (after the content container).
Outside == { <<>>, <<Node("dl", {}, "", "padded", <<>>)>> }

Dom(body, outside) ==
    Node("body", {}, "", "none",
         <<Node("div", {}, "mw-content-text", "none",
                <<Node("div", {"mw-parser-output"}, "", "none", body)>>)>> \o outside)

\* The documents of at most max nodes under the parser output.
Doms(max) ==
    {Dom(b, o) : b \in UNION {[1..n -> Blocks] : n \in 0..max}, o \in Outside}

RECURSIVE NodeAt(_, _)
NodeAt(n, path) == IF path = <<>> THEN n ELSE NodeAt(n.kids[Head(path)], Tail(path))

\* The paths of the subtree of the node at path, in document order.
RECURSIVE Preorder(_, _)
RECURSIVE PreorderKids(_, _, _)
Preorder(n, path) == <<path>> \o PreorderKids(n, path, 1)
PreorderKids(n, path, i) ==
    IF i > Len(n.kids) THEN <<>>
    ELSE Preorder(n.kids[i], Append(path, i)) \o PreorderKids(n, path, i + 1)

AllPaths(d) == Preorder(d, <<>>)

RECURSIVE Size(_)
RECURSIVE SizeOfKids(_, _)
Size(n) == 1 + SizeOfKids(n, Len(n.kids))
SizeOfKids(n, i) == IF i = 0 THEN 0 ELSE Size(n.kids[i]) + SizeOfKids(n, i - 1)

\* The number of the node at path in document order, the root being 1.
RECURSIVE Number(_, _)
Number(n, path) ==
    IF path = <<>> THEN 1
    ELSE 1 + SizeOfKids(n, Head(path) - 1) + Number(n.kids[Head(path)], Tail(path))

Parent(path) == SubSeq(path, 1, Len(path) - 1)

IsProperDescendant(path, anc) == Len(anc) < Len(path) /\ SubSeq(path, 1, Len(anc)) = anc

\* element.find(selector): the nodes of the subtree (itself included) in document order.
Subtree(d, path) == Preorder(NodeAt(d, path), path)

OwnText(d, path) ==
    LET x == NodeAt(d, path).text
        w == Words[Number(d, path)]
    IN  IF x = "none" THEN <<>>
        ELSE IF x = "word" THEN <<w>>
        ELSE <<" ", w, " ">>

RECURSIVE Concat(_, _, _)
Concat(d, paths, i) ==
    IF i > Len(paths) THEN <<>> ELSE OwnText(d, paths[i]) \o Concat(d, paths, i + 1)

\* e.full_text
FullText(d, path) == Concat(d, Subtree(d, path), 1)

HasClass(d, path, c) == c \in NodeAt(d, path).class

(***************************************************************************)
(* content(article), lines 114-155.                                        *)
(***************************************************************************)
\* for ib in article.find('div.infobox'): for e in ib.element.iterdescendants()
infobox_descendants(d) ==
    LET all == AllPaths(d)
        infoboxes == SelectSeq(all, LAMBDA q : NodeAt(d, q).tag = "div" /\ HasClass(d, q, "infobox"))
    IN  UNION {Range(Tail(Subtree(d, infoboxes[i]))) : i \in 1..Len(infoboxes)}

\* '[id~="mw-content-text"] > [class~="mw-parser-output"] > p'
MatchesChildParagraph(d, q) ==
    /\ NodeAt(d, q).tag = "p"
    /\ Len(q) >= 2
    /\ HasClass(d, Parent(q), "mw-parser-output")
    /\ NodeAt(d, Parent(Parent(q))).id = "mw-content-text"

\* the selector group of line 130: three selectors separated by commas
MatchesSelector(d, q) ==
    \/ MatchesChildParagraph(d, q)
    \/ NodeAt(d, q).tag = "dl"
    \/ HasClass(d, q, "cquote")

Selected(d) == SelectSeq(AllPaths(d), LAMBDA q : MatchesSelector(d, q))

BoilerplateIds ==
    {"External_link", "External_links", "References", "Related_Stories", "Related_news",
     "Related_stories", "See_also", "Sister_links", "Sources"}

\* any(e.find('[class="published"]'))
ContainsPublished(d, e) ==
    LET found == SelectSeq(Subtree(d, e), LAMBDA q : NodeAt(d, q).class = {"published"})
    IN  found # <<>>

\* any(e.find(f'[id="{id_}"]')) for one of the ids of lines 139-149
ContainsBoilerplate(d, e) ==
    \E id_ \in BoilerplateIds :
        SelectSeq(Subtree(d, e), LAMBDA q : NodeAt(d, q).id = id_) # <<>>

\* e.find('[class~="mw-headline"]')
ContainsHeadline(d, e) ==
    LET found == SelectSeq(Subtree(d, e), LAMBDA q : HasClass(d, q, "mw-headline"))
    IN  found # <<>>

\* the test of lines 133-136
Skipped(d, ibd, e) == e \in ibd \/ ContainsPublished(d, e)

\* e.full_text.strip() + '\n'
TextBlockNoNewline(d, e) == Strip(FullText(d, e))
TextBlock(d, e) == Append(Strip(FullText(d, e)), "\n")

\* What the generator yields; src records the node a block was produced for.
RECURSIVE ContentFrom(_, _, _)
ContentFrom(d, ibd, sel) ==
    IF sel = <<>> THEN <<>>
    ELSE LET e == Head(sel) IN
         IF Skipped(d, ibd, e) THEN ContentFrom(d, ibd, Tail(sel))
         ELSE IF ContainsBoilerplate(d, e) THEN <<>>
         ELSE <<[src |-> e, text |-> TextBlock(d, e)]>>
              \o (IF ContainsHeadline(d, e) THEN <<[src |-> e, text |-> <<>>]>> ELSE <<>>)
              \o ContentFrom(d, ibd, Tail(sel))

content(d) ==
    LET ibd == infobox_descendants(d) IN ContentFrom(d, ibd, Selected(d))

(***************************************************************************)
(* metadata(article), lines 75-112.  The document is seen through the      *)
(* queries the function makes: firstHeading is the text of the node        *)
(* '[id="firstHeading"]' (None without such a node), parserOutputLang the  *)
(* lang attribute of each '[class~="mw-parser-output"]' node (None where   *)
(* the attribute is missing), publishDate the title attribute of the node  *)
(* '[id="publishDate"]' (None without the node, Some(None) without the     *)
(* attribute), licenses the href of each '[rel="license"]' node, catlinks  *)
(* the absolute_links of each anchor of the normal category links.         *)
(***************************************************************************)
LangOrder == <<"en", "fr">>

OptLangs == {None} \cup {Some(LangOrder[i]) : i \in 1..Len(LangOrder)}

Headings == {None, Some(<<"Title">>), Some(<<" ", "Title", "\n">>)}

PublishDates == {None, Some(None), Some(Some("January 1, 2020"))}

OptHrefs == {None, Some("//creativecommons.org/licenses/by/2.5/")}

BlankArticle ==
    [url |-> None, firstHeading |-> None, parserOutputLang |-> <<>>, publishDate |-> None,
     licenses |-> <<>>, catlinks |-> <<>>, dom |-> Dom(<<>>, <<>>)]

RECURSIVE SortedBy(_, _, _)
SortedBy(order, l, i) ==
    IF i > Len(order) THEN <<>>
    ELSE SelectSeq(l, LAMBDA x : x = order[i]) \o SortedBy(order, l, i + 1)

\* sorted(languages) raises TypeError when it has to compare None with another entry
SortedRaises(l) == Len(l) >= 2 /\ \E i \in 1..Len(l) : l[i] = None

\* sorted(languages), line 106
SortedLanguages(l) ==
    IF Len(l) <= 1 THEN l ELSE SortedBy([i \in 1..Len(LangOrder) |-> Some(LangOrder[i])], l, 1)

\* sorted(wikinews_categories), line 111: the union of the link sets, sorted
RECURSIVE UnionOf(_)
UnionOf(sets) == IF sets = <<>> THEN {} ELSE Head(sets) \cup UnionOf(Tail(sets))

SortedCategories(sets) == SelectSeq(UrlOrder, LAMBDA u : u \in UnionOf(sets))

\* lines 82-85
Title(a) == IF a.firstHeading = None THEN None ELSE Some(Strip(a.firstHeading[1]))

\* lines 90-93
PublishedDate(a) == IF a.publishDate = None THEN None ELSE a.publishDate[1]

\* Whether metadata(article) raises: nothing catches the sorted() of line 106.
MetadataRaises(a) == SortedRaises(a.parserOutputLang)

\* The dictionary returned by lines 103-112.
metadata(a) ==
    [accessed_date |-> "utcnow",
     domain |-> <<a.url[1], a.url[2]>>,
     languages |-> SortedLanguages(a.parserOutputLang),
     licenses |-> a.licenses,
     published_date |-> PublishedDate(a),
     title |-> Title(a),
     url |-> a.url,
     wikinews_categories |-> SortedCategories(a.catlinks)]

\* '\n'.join(content(article_page.html)).strip() + '\n', line 168
Text(d) ==
    LET bs == content(d)
    IN  Append(Strip(Join("\n", [i \in 1..Len(bs) |-> bs[i].text])), "\n")

\* The documents metadata() is applied to, of at most max nodes for a query.
MetaArticles(max) ==
    {[url |-> A1, firstHeading |-> h, parserOutputLang |-> l, publishDate |-> d,
      licenses |-> c, catlinks |-> k, dom |-> Dom(<<>>, <<>>)] :
        h \in Headings,
        l \in UNION {[1..n -> OptLangs] : n \in 0..max},
        d \in PublishDates,
        c \in UNION {[1..n -> OptHrefs] : n \in 0..max},
        k \in {<<>>, <<{C1}>>, <<{C1}, {P1, C1}>>}}

\* The documents session.get returns for an article URL in the crawl.
ArticleDocs ==
    { [BlankArticle EXCEPT !.firstHeading = Some(<<"Title">>),
                           !.parserOutputLang = <<Some("en")>>,
                           !.dom = Dom(<<Node("p", {}, "", "padded", <<>>)>>, <<>>)],
      [BlankArticle EXCEPT !.firstHeading = Some(<<"Title">>),
                           !.parserOutputLang = <<None, Some("en")>>] }

(***************************************************************************)
(* category_pages(next_page), lines 50-73.                                 *)
(***************************************************************************)
\* if url not in seen, line 65
IsNewAlways(u) == TRUE
IsNew(u) == u \notin seen

\* session.get(next_page) and the start of the loop of line 63
FetchPage ==
    /\ pc = "fetch"
    /\ next_page # None
    /\ Len(fetchedPages) < MaxFetches
    /\ page' = site[next_page]
    /\ fetchedPages' = Append(fetchedPages, next_page)
    /\ idx' = 0
    /\ pending' = {}
    /\ pc' = "links"
    /\ UNCHANGED <<category_url, site, next_page, seen, url, yielded, fetchedArticles,
                   emitted, article, blocks, mres>>

\* One step of the loops of lines 63-67: the next link of the anchor (in the order
\* the set iterates), the next anchor, or the end of the anchors.
ScanLinks ==
    /\ pc = "links"
    /\ \/ /\ pending # {}
          /\ \E u \in pending :
                /\ pending' = pending \ {u}
                /\ IF IsNew(u)
                   THEN /\ seen' = seen \cup {u}
                        /\ yielded' = Append(yielded, u)
                        /\ url' = u
                        /\ pc' = "yielded"
                   ELSE UNCHANGED <<seen, yielded, url, pc>>
          /\ UNCHANGED idx
       \/ /\ pending = {}
          /\ idx < Len(CategoryAnchors(page))
          /\ idx' = idx + 1
          /\ pending' = CategoryAnchors(page)[idx + 1].links
          /\ UNCHANGED <<seen, yielded, url, pc>>
       \/ /\ pending = {}
          /\ idx = Len(CategoryAnchors(page))
          /\ pc' = "paginate"
          /\ UNCHANGED <<seen, yielded, url, idx, pending>>
    /\ UNCHANGED <<category_url, site, next_page, page, fetchedPages, fetchedArticles,
                   emitted, article, blocks, mres>>

\* lines 68-73 and the test of line 55
Paginate ==
    /\ pc = "paginate"
    /\ LET next_pages == NextPages(page) IN
       \/ /\ next_pages # <<>>
          /\ Head(next_pages).links = {}          \* set.pop() raises KeyError
          /\ pc' = "error"
          /\ UNCHANGED next_page
       \/ /\ next_pages # <<>>
          /\ \E u \in Head(next_pages).links :
                next_page' = u
          /\ pc' = "fetch"
       \/ /\ next_pages = <<>>
          /\ next_page' = None
          /\ pc' = "done"
    /\ UNCHANGED <<category_url, site, seen, page, idx, pending, url, yielded,
                   fetchedPages, fetchedArticles, emitted, article, blocks, mres>>

\* A caller that takes the yielded URL and asks for the next one.
Resume ==
    /\ pc = "yielded"
    /\ pc' = "links"
    /\ UNCHANGED <<category_url, site, next_page, seen, page, idx, pending, url, yielded,
                   fetchedPages, fetchedArticles, emitted, article, blocks, mres>>

(***************************************************************************)
(* The script, lines 211-214, and article(url), lines 157-169.             *)
(***************************************************************************)
\* category_pages(category_url), line 212: the name is bound nowhere in the file
MainStart ==
    /\ pc = "main"
    /\ \/ /\ category_url = Unbound
          /\ pc' = "name_error"
          /\ UNCHANGED next_page
       \/ /\ category_url # Unbound
          /\ next_page' = category_url
          /\ pc' = "fetch"
    /\ UNCHANGED <<category_url, site, seen, page, idx, pending, url, yielded,
                   fetchedPages, fetchedArticles, emitted, article, blocks, mres>>

\* line 213, for a URL that holds the category marker
MainSkipCategory ==
    /\ pc = "yielded"
    /\ IsCategoryUrl(url)
    /\ pc' = "links"
    /\ UNCHANGED <<category_url, site, next_page, seen, page, idx, pending, url, yielded,
                   fetchedPages, fetchedArticles, emitted, article, blocks, mres>>

\* line 213 for any other URL, and session.get(url), line 159
ArticleGet ==
    /\ pc = "yielded"
    /\ ~IsCategoryUrl(url)
    /\ fetchedArticles' = Append(fetchedArticles, url)
    /\ \E d \in ArticleDocs : article' = [d EXCEPT !.url = url]
    /\ pc' = "article"
    /\ UNCHANGED <<category_url, site, next_page, seen, page, idx, pending, url, yielded,
                   fetchedPages, emitted, blocks, mres>>

\* lines 166-169 and the print of line 214
ArticleRecord ==
    /\ pc = "article"
    /\ ~MetadataRaises(article)
    /\ emitted' = Append(emitted, [metadata |-> metadata(article), text |-> Text(article.dom)])
    /\ article' = BlankArticle
    /\ pc' = "links"
    /\ UNCHANGED <<category_url, site, next_page, seen, page, idx, pending, url, yielded,
                   fetchedPages, fetchedArticles, blocks, mres>>

\* line 167 when metadata() raises: nothing catches it, the script ends
ArticleRaise ==
    /\ pc = "article"
    /\ MetadataRaises(article)
    /\ pc' = "crashed"
    /\ UNCHANGED <<category_url, site, next_page, seen, page, idx, pending, url, yielded,
                   fetchedPages, fetchedArticles, emitted, article, blocks, mres>>

(***************************************************************************)
(* The extractors applied to one document.                                 *)
(***************************************************************************)
ContentRun ==
    /\ pc = "content"
    /\ blocks' = content(article.dom)
    /\ pc' = "content_done"
    /\ UNCHANGED <<category_url, site, next_page, seen, page, idx, pending, url, yielded,
                   fetchedPages, fetchedArticles, emitted, article, mres>>

MetadataReturn ==
    /\ pc = "metadata"
    /\ ~MetadataRaises(article)
    /\ mres' = metadata(article)
    /\ pc' = "returned"
    /\ UNCHANGED <<category_url, site, next_page, seen, page, idx, pending, url, yielded,
                   fetchedPages, fetchedArticles, emitted, article, blocks>>

MetadataRaise ==
    /\ pc = "metadata"
    /\ MetadataRaises(article)
    /\ pc' = "raised"
    /\ UNCHANGED <<category_url, site, next_page, seen, page, idx, pending, url, yielded,
                   fetchedPages, fetchedArticles, emitted, article, blocks, mres>>

(***************************************************************************)
(* Specifications.                                                         *)
(***************************************************************************)
Idle ==
    /\ next_page = None
    /\ seen = {}
    /\ page = <<>>
    /\ idx = 0
    /\ pending = {}
    /\ url = None
    /\ yielded = <<>>
    /\ fetchedPages = <<>>
    /\ fetchedArticles = <<>>
    /\ emitted = <<>>
    /\ blocks = <<>>
    /\ mres = None

\* The script.
Init ==
    /\ Idle
    /\ pc = "main"
    /\ site \in Sites(MaxAnchors)
    /\ category_url \in {Unbound, P1}
    /\ category_url = Unbound => site = EmptySite
    /\ article = BlankArticle

Next ==
    \/ MainStart
    \/ FetchPage
    \/ ScanLinks
    \/ Paginate
    \/ MainSkipCategory
    \/ ArticleGet
    \/ ArticleRecord
    \/ ArticleRaise

Spec == Init /\ [][Next]_vars

\* category_pages(P1) run to its end by a caller that keeps asking.
CrawlInit ==
    /\ seen = {}
    /\ page = <<>>
    /\ idx = 0
    /\ pending = {}
    /\ url = None
    /\ yielded = <<>>
    /\ fetchedPages = <<>>
    /\ fetchedArticles = <<>>
    /\ emitted = <<>>
    /\ blocks = <<>>
    /\ mres = None
    /\ pc = "fetch"
    /\ category_url = P1
    /\ next_page = P1
    /\ site \in Sites(MaxAnchors)
    /\ article = BlankArticle

CrawlNext == FetchPage \/ ScanLinks \/ Paginate \/ Resume

CrawlSpec == CrawlInit /\ [][CrawlNext]_vars /\ WF_vars(CrawlNext)

\* content() applied to one document.
ContentInit ==
    /\ Idle
    /\ pc = "content"
    /\ category_url = Unbound
    /\ site = EmptySite
    /\ article \in {[BlankArticle EXCEPT !.dom = d] : d \in Doms(MaxBlocks)}

ContentNext == ContentRun

ContentSpec == ContentInit /\ [][ContentNext]_vars

\* metadata() applied to one document.
MetaInit ==
    /\ Idle
    /\ pc = "metadata"
    /\ category_url = Unbound
    /\ site = EmptySite
    /\ article \in MetaArticles(MaxNodes)

MetaNext == MetadataReturn \/ MetadataRaise

MetaSpec == MetaInit /\ [][MetaNext]_vars

(***************************************************************************)
(* What the specification says, stated without the operators of the model  *)
(* of the code.                                                            *)
(***************************************************************************)
\* The anchors of a listing page inside the category-listing container.
ListedAnchors(p) == SelectSeq(p, LAMBDA a : a.inCategory = TRUE)

\* The anchors of a listing page whose visible text is exactly "next page".
ExactNextAnchors(p) == SelectSeq(p, LAMBDA a : a.text = "next page")

\* The URL holds 'wikinews.org/wiki/Category:'.
HoldsCategoryMarker(u) ==
    \E i \in 1..Len(u) :
        i + 2 <= Len(u) /\ SubSeq(u, i, i + 2) = <<"en.wikinews.org", "/wiki/", "Category:">>

\* The pagination chain from p reaches a page without a "next page" anchor within n pages.
RECURSIVE ChainEndsFrom(_, _, _)
ChainEndsFrom(s, p, n) ==
    /\ n > 0
    /\ \/ ExactNextAnchors(s[p]) = <<>>
       \/ /\ ExactNextAnchors(s[p]) # <<>>
          /\ Cardinality(Head(ExactNextAnchors(s[p])).links) = 1
          /\ \A q \in Head(ExactNextAnchors(s[p])).links : ChainEndsFrom(s, q, n - 1)

ChainEnds(s) == ChainEndsFrom(s, P1, Cardinality(ListingUrls))

\* The pages of the chain from p, in order: those of a chain that ends, and otherwise
\* the pages up to the anchor without target or the first n pages.
RECURSIVE ChainFrom(_, _, _)
ChainFrom(s, p, n) ==
    IF n = 1 \/ ExactNextAnchors(s[p]) = <<>> \/ Head(ExactNextAnchors(s[p])).links = {}
    THEN <<p>>
    ELSE <<p>> \o ChainFrom(s, CHOOSE q \in Head(ExactNextAnchors(s[p])).links : TRUE, n - 1)

Chain(s) == ChainFrom(s, P1, Cardinality(ListingUrls))

LinksOfPage(p) == UNION {ListedAnchors(p)[i].links : i \in 1..Len(ListedAnchors(p))}

ChainLinks(s) == UNION {LinksOfPage(s[Chain(s)[k]]) : k \in 1..Len(Chain(s))}

emittedUrls == [i \in 1..Len(emitted) |-> emitted[i].metadata.url]

\* Where a URL occurs in the listing pages fetched so far: <<fetch, anchor>>.
Occurrences(u) ==
    {pos \in UNION {{<<k, j>> : j \in 1..Len(ListedAnchors(site[fetchedPages[k]]))} :
                        k \in 1..Len(fetchedPages)} :
        u \in ListedAnchors(site[fetchedPages[pos[1]]])[pos[2]].links}

Earlier(a, b) == a[1] < b[1] \/ (a[1] = b[1] /\ a[2] < b[2])

FirstDiscovery(u) ==
    CHOOSE a \in Occurrences(u) : \A b \in Occurrences(u) : a = b \/ Earlier(a, b)

(***************************************************************************)
(* category_pages                                                          *)
(***************************************************************************)
\* C1: each URL appears in the yielded sequence at most once, and seen holds exactly
\* the URLs yielded so far (a URL enters seen at the moment it is yielded, and is
\* yielded only when it is not in seen), whatever pages are visited or revisited.
C1_YieldedOnce == NoDup(yielded) /\ seen = Range(yielded)

\* C1: a listing page has been fetched a second time and scanned to its end, and the
\* links it lists were all yielded before.
C1_RevisitScanned ==
    /\ pc = "paginate"
    /\ Len(fetchedPages) = 3
    /\ fetchedPages[3] = fetchedPages[1]
    /\ LinksOfPage(page) # {}
    /\ LinksOfPage(page) \subseteq Range(yielded)

\* C6: if the pagination chain from the start URL reaches a page without a "next page"
\* anchor, category_pages ends, having fetched exactly the pages of the chain, each
\* once and in order, and having yielded exactly the distinct links of their
\* category-listing containers.
C6_ChainCrawled ==
    ChainEnds(site) =>
        <>[](/\ pc = "done"
             /\ fetchedPages = Chain(site)
             /\ NoDup(fetchedPages)
             /\ NoDup(yielded)
             /\ Range(yielded) = ChainLinks(site))

\* C6: a crawl of a chain of two pages has ended with two or more URLs yielded.
C6_TwoPageChainDone ==
    /\ ChainEnds(site)
    /\ pc = "done"
    /\ Len(fetchedPages) = 2
    /\ Len(yielded) >= 2

\* C9: after a listing page is processed the crawl continues with the link target of
\* the first anchor whose text is exactly "next page" when there is one, stops with
\* next_page = None when there is none, and never ends by an error.
C9_NextPageStep ==
    (pc \in {"fetch", "done", "error"} /\ fetchedPages # <<>>) =>
        /\ pc # "error"
        /\ ExactNextAnchors(page) # <<>> =>
              pc = "fetch" /\ next_page \in Head(ExactNextAnchors(page)).links
        /\ ExactNextAnchors(page) = <<>> => pc = "done" /\ next_page = None

(***************************************************************************)
(* The script                                                              *)
(***************************************************************************)
NotCategory(q) == SelectSeq(q, LAMBDA u : ~HoldsCategoryMarker(u))

HasId(d, e, ids) ==
    \E q \in Range(AllPaths(d)) :
        (q = e \/ IsProperDescendant(q, e)) /\ NodeAt(d, q).id \in ids

HasHeadline(d, e) ==
    \E q \in Range(AllPaths(d)) :
        (q = e \/ IsProperDescendant(q, e)) /\ "mw-headline" \in NodeAt(d, q).class

UnderInfobox(d, q) ==
    \E ib \in Range(AllPaths(d)) :
        "infobox" \in NodeAt(d, ib).class /\ IsProperDescendant(q, ib)

\* The paragraph, definition-list and quote-block children of the parser-output container.
ChildOfParserOutput(d, q) ==
    /\ Len(q) >= 2
    /\ "mw-parser-output" \in NodeAt(d, Parent(q)).class
    /\ NodeAt(d, Parent(Parent(q))).id = "mw-content-text"
    /\ \/ NodeAt(d, q).tag \in {"p", "dl"}
       \/ "cquote" \in NodeAt(d, q).class

\* C2: once a selected node holds an element with a boilerplate id the sequence ends,
\* and after a heading node with id References no block is emitted for the heading or
\* for anything after it.
C2_StopsAtBoilerplate ==
    pc = "content_done" =>
        LET d == article.dom IN
        /\ \A e \in Range(Selected(d)) :
              HasId(d, e, BoilerplateIds) =>
                  \A i \in 1..Len(blocks) : Number(d, blocks[i].src) < Number(d, e)
        /\ \A h \in Range(AllPaths(d)) :
              (NodeAt(d, h).tag = "h2" /\ HasId(d, h, {"References"})) =>
                  \A i \in 1..Len(blocks) : Number(d, blocks[i].src) < Number(d, h)

\* C3: no emitted block holds the text of a node under an infobox-classed container.
C3_NoInfoboxText ==
    pc = "content_done" =>
        LET d == article.dom IN
        \A i \in 1..Len(blocks) :
            \A q \in Range(AllPaths(d)) :
                UnderInfobox(d, q) => Words[Number(d, q)] \notin Range(blocks[i].text)

\* C8: a text block of a node that holds a headline node is followed by exactly one
\* empty block before the next text block or the end, and an empty block occurs only
\* there.
C8_HeadlineSpacing ==
    pc = "content_done" =>
        LET d == article.dom IN
        \A i \in 1..Len(blocks) :
            /\ (blocks[i].text # <<>> /\ HasHeadline(d, blocks[i].src)) =>
                  /\ i < Len(blocks)
                  /\ blocks[i + 1].text = <<>>
                  /\ i + 2 <= Len(blocks) => blocks[i + 2].text # <<>>
            /\ blocks[i].text = <<>> =>
                  /\ i > 1
                  /\ blocks[i - 1].text # <<>>
                  /\ HasHeadline(d, blocks[i - 1].src)

\* C8: a section header was emitted, then the empty block, then another text block;
\* the sequence also holds the block of a paragraph without text.
C8_HeadlineThenText ==
    /\ pc = "content_done"
    /\ \E i \in 1..Len(blocks) :
          /\ i + 2 <= Len(blocks)
          /\ HasHeadline(article.dom, blocks[i].src)
          /\ blocks[i + 1].text = <<>>
          /\ blocks[i + 2].text = <<"\n">>

\* C10: the nodes considered are exactly the paragraph, definition-list and quote-block
\* children of the parser-output container, in document order, and no other node
\* contributes a block.
C10_OnlyDirectChildren ==
    pc = "content_done" =>
        LET d == article.dom IN
        /\ Selected(d) = SelectSeq(AllPaths(d), LAMBDA q : ChildOfParserOutput(d, q))
        /\ \A i \in 1..Len(blocks) : ChildOfParserOutput(d, blocks[i].src)

(***************************************************************************)
(* metadata                                                                *)
(***************************************************************************)
\* C4: metadata() never raises, and a field that cannot be extracted falls back to its
\* absent value without changing another field: without a publish-date node the
\* published date is absent and the title is still the trimmed heading.
C4_NeverRaises ==
    /\ pc # "raised"
    /\ pc = "returned" =>
          /\ article.firstHeading = None => mres.title = None
          /\ article.publishDate = None => mres.published_date = None
          /\ article.firstHeading # None =>
                mres.title = Some(Strip(article.firstHeading[1]))
          /\ Len(mres.languages) = Len(article.parserOutputLang)
==========================================================================
